---- MODULE Spec2Model ----
(***************************************************************************)
(* Model of the stanford-ner wrapper (src/src/NER.ts): the tagged-output   *)
(* parser, the tagged token counter and the request sequencer that         *)
(* serialises getEntities calls against one worker subprocess.             *)
(*                                                                         *)
(* Strings are sequences of one-character strings, so that splitting,      *)
(* matching and joining are computed and not assumed.                      *)
(***************************************************************************)
EXTENDS Integers, Sequences, FiniteSets, TLC

\* ------------------------------------------------------------------------
\* Bounds of the model
\* ------------------------------------------------------------------------
MaxTokens == 3      \* tokens per line in the parser specification
MaxRequests == 3    \* getEntities calls in one run of the sequencer
MaxLines == 4       \* output lines the worker emits in one run, all texts together

\* ------------------------------------------------------------------------
\* Characters and string helpers
\* ------------------------------------------------------------------------
Upper == {"A","B","C","D","E","F","G","H","I","J","K","L","M",
          "N","O","P","Q","R","S","T","U","V","W","X","Y","Z"}

\* the characters of \s and of String.prototype.trim that have no escape
\* in a string here, each written as one element under the name of its
\* code point
VerticalTab == "u000B"

NoBreakSpace == "u00A0"

ByteOrderMark == "uFEFF"

LineSeparator == "u2028"

ParagraphSeparator == "u2029"

\* the other characters of the Unicode category of space separators
SpaceSeparators ==
    { "u1680", "u2000", "u2001", "u2002", "u2003", "u2004", "u2005", "u2006",
      "u2007", "u2008", "u2009", "u200A", "u202F", "u205F", "u3000" }

\* \s in a regular expression, and the white space and line terminators
\* that String.prototype.trim removes
Whitespace ==
    { " ", "\t", "\r", "\n", "\f", VerticalTab, NoBreakSpace, ByteOrderMark,
      LineSeparator, ParagraphSeparator } \cup SpaceSeparators

SetMax(S) == CHOOSE x \in S : \A y \in S : y <= x

\* String.prototype.split on a set of one-character separators: empty
\* pieces are kept, and the empty string splits to one empty piece.
RECURSIVE SplitAcc(_, _, _, _)
SplitAcc(s, seps, i, cur) ==
    IF i > Len(s) THEN << cur >>
    ELSE IF s[i] \in seps
         THEN << cur >> \o SplitAcc(s, seps, i + 1, << >>)
         ELSE SplitAcc(s, seps, i + 1, Append(cur, s[i]))

Split(s, seps) == SplitAcc(s, seps, 1, << >>)

\* Array.prototype.join with a separator string
RECURSIVE Join(_, _)
Join(parts, sep) ==
    IF Len(parts) = 0 THEN << >>
    ELSE IF Len(parts) = 1 THEN parts[1]
    ELSE parts[1] \o sep \o Join(Tail(parts), sep)

\* String.prototype.trim
RECURSIVE TrimLeft(_)
TrimLeft(s) ==
    IF Len(s) > 0 /\ s[1] \in Whitespace THEN TrimLeft(Tail(s)) ELSE s

RECURSIVE TrimRight(_)
TrimRight(s) ==
    IF Len(s) > 0 /\ s[Len(s)] \in Whitespace
    THEN TrimRight(SubSeq(s, 1, Len(s) - 1)) ELSE s

Trim(s) == TrimRight(TrimLeft(s))

\* ------------------------------------------------------------------------
\* NER.parse
\* ------------------------------------------------------------------------
OTag == << "O" >>

Undefined == << >>     \* the initial value of prevEntity; never a tag

\* the longest run of upper-case letters of tok starting at position i
RECURSIVE UpperRun(_, _)
UpperRun(tok, i) ==
    IF i <= Len(tok) /\ tok[i] \in Upper
    THEN << tok[i] >> \o UpperRun(tok, i + 1)
    ELSE << >>

\* positions of a slash that has something before it and an upper-case
\* letter after it: where /(.+)\/([A-Z]+)/ can put its slash
SlashPositions(tok) ==
    { j \in 2 .. Len(tok) - 1 : tok[j] = "/" /\ tok[j + 1] \in Upper }

\* new RegExp('(.+)/([A-Z]+)','g').exec(token): unanchored, the first group
\* greedy, so the slash is the last one that an upper-case letter follows.
\* The result is a sequence of zero (null) or one {w, t} record.
ExecToken(tok) ==
    IF SlashPositions(tok) = {} THEN << >>
    ELSE LET j == SetMax(SlashPositions(tok))
         IN << [w |-> SubSeq(tok, 1, j - 1), t |-> UpperRun(tok, j + 1)] >>

\* a map without compact: a token without match is kept as an O token
RECURSIVE CompactMapKeep(_)
CompactMapKeep(toks) ==
    IF Len(toks) = 0 THEN << >>
    ELSE (IF ExecToken(toks[1]) = << >>
          THEN << [w |-> toks[1], t |-> OTag] >>
          ELSE ExecToken(toks[1])) \o CompactMapKeep(Tail(toks))

\* _.compact(_.map(tokenized, exec)): the matches, in order
RECURSIVE CompactMap(_)
CompactMap(toks) ==
    IF Len(toks) = 0 THEN << >>
    ELSE ExecToken(toks[1]) \o CompactMap(Tail(toks))

Tagged(parsed) == CompactMap(Split(parsed, Whitespace))

\* Map<string, string[]>: a sequence of [k, v] entries in insertion order
MapHas(m, key) == \E i \in 1 .. Len(m) : m[i].k = key

MapGet(m, key) == m[CHOOSE i \in 1 .. Len(m) : m[i].k = key].v

MapSet(m, key, val) ==
    IF MapHas(m, key)
    THEN [i \in 1 .. Len(m) |-> IF m[i].k = key THEN [k |-> key, v |-> val] ELSE m[i]]
    ELSE Append(m, [k |-> key, v |-> val])

\* if (!entities.get(key)) entities.set(key, []); entities.get(key).push(s)
MapPush(m, key, s) ==
    IF MapHas(m, key) THEN MapSet(m, key, Append(MapGet(m, key), s))
    ELSE MapSet(m, key, << s >>)

\* "We save the entity": the open buffer, joined, goes under prevEntity
SaveEntity(st) ==
    IF Len(st.entityBuffer) > 0
    THEN [st EXCEPT !.entities = MapPush(st.entities, st.prevEntity,
                                         Join(st.entityBuffer, << " " >>)),
                    !.entityBuffer = << >>]
    ELSE st

\* one iteration of the scan loop over tagged[i]
ScanStep(st, tok) ==
    LET s1 == IF tok.t # OTag
              THEN IF tok.t # st.prevEntity
                   THEN LET s0 == SaveEntity(st)
                        IN [s0 EXCEPT !.entityBuffer = Append(s0.entityBuffer, tok.w)]
                   ELSE [st EXCEPT !.entityBuffer = Append(st.entityBuffer, tok.w)]
              ELSE SaveEntity(st)
    IN [s1 EXCEPT !.prevEntity = tok.t]

RECURSIVE ScanLoop(_, _, _)
ScanLoop(st, tagged, i) ==
    IF i > Len(tagged) THEN st
    ELSE ScanLoop(ScanStep(st, tagged[i]), tagged, i + 1)

\* "If entity buffer is not empty, then add the last entries":
\* entities.set(prevEntity, entityBuffer) stores the buffer array itself
FinalFlush(st) ==
    IF Len(st.entityBuffer) > 0
    THEN MapSet(st.entities, st.prevEntity, st.entityBuffer)
    ELSE st.entities

parse(parsed) ==
    FinalFlush(ScanLoop([entities |-> << >>, prevEntity |-> Undefined,
                         entityBuffer |-> << >>],
                        Tagged(parsed), 1))

\* ------------------------------------------------------------------------
\* NER.getTokenCount, tagged mode
\* ------------------------------------------------------------------------
\* the grave accent, which the lexer does not accept inside a string
Backquote == "grave"

\* a map callback that leaves the escapes as they are
UnescapeNone(val) == Split(val, {"/"})[1]

\* the map callback: the surface before the first slash, with the Penn
\* Treebank escapes of quotes and brackets replaced by one character
Unescape(val) ==
    LET p0 == Split(val, {"/"})[1]
    IN  IF p0 = << Backquote, Backquote >> THEN << "'" >>
        ELSE IF p0 = << "'", "'" >> THEN << "'" >>
        ELSE IF p0 = << "-", "L", "R", "B", "-" >> THEN << "(" >>
        ELSE IF p0 = << "-", "R", "R", "B", "-" >> THEN << ")" >>
        ELSE IF p0 = << "-", "L", "S", "B", "-" >> THEN << "[" >>
        ELSE IF p0 = << "-", "R", "S", "B", "-" >> THEN << "]" >>
        ELSE IF p0 = << "-", "L", "C", "B", "-" >> THEN << "{" >>
        ELSE IF p0 = << "-", "R", "C", "B", "-" >> THEN << "}" >>
        ELSE p0

\* the filter callback in tagged mode
IsCounted(value) == Len(Trim(Split(value, {"/"})[1])) > 1

RECURSIVE CountFiltered(_)
CountFiltered(toks) ==
    IF Len(toks) = 0 THEN 0
    ELSE (IF IsCounted(Unescape(toks[1])) THEN 1 ELSE 0) + CountFiltered(Tail(toks))

\* getTokenCount(text, true)
getTokenCountTagged(text) == CountFiltered(Split(text, {" "}))

\* ------------------------------------------------------------------------
\* Inputs of the sequencer: a text is known by the lines the worker emits
\* for it and by the budget the untagged tokenizer gives it
\* ------------------------------------------------------------------------
LineObama == << "O","b","a","m","a","/","P","E","R","S","O","N" >>

LineDot == << ".", "/", "O" >>

LineSet == { LineObama, LineDot }

RECURSIVE SeqsUpTo(_, _)
SeqsUpTo(S, n) ==
    IF n = 0 THEN { << >> }
    ELSE LET shorter == SeqsUpTo(S, n - 1)
         IN shorter \cup { Append(q, x) : q \in { p \in shorter : Len(p) = n - 1 }, x \in S }

\* the tagged token counts of the lines of a text, added up
RECURSIVE TaggedSum(_)
TaggedSum(ls) ==
    IF Len(ls) = 0 THEN 0
    ELSE getTokenCountTagged(ls[1]) + TaggedSum(Tail(ls))

\* the words of a tagged line: each token without its slash and tag
RECURSIVE Surfaces(_)
Surfaces(toks) ==
    IF Len(toks) = 0 THEN << >>
    ELSE << Split(toks[1], {"/"})[1] >> \o Surfaces(Tail(toks))

\* the text whose tagging by the worker is the lines ls
RECURSIVE RawText(_)
RawText(ls) ==
    IF Len(ls) = 0 THEN << >>
    ELSE Join(Surfaces(Split(ls[1], {" "})), << " " >>)
         \o (IF Len(ls) = 1 THEN << >> ELSE << " " >> \o RawText(Tail(ls)))

\* what a caller may leave around the text: nothing, or blanks and a line end
Pads == { << << >>, << >> >>, << << " " >>, << " ", "\r", "\n" >> >> }

\* getTokenCount(text) of the untagged text is taken to agree with the
\* worker's tokenization: the budget is the tagged count of all its lines
\* (the texts of one sentence come with and without padding, the longer
\* ones without)
Texts ==
    UNION { { [budget |-> TaggedSum(ls), lines |-> ls,
               text |-> pad[1] \o RawText(ls) \o pad[2]] :
                pad \in IF Len(ls) = 1 THEN Pads ELSE { << << >>, << >> >> } } :
            ls \in { q \in SeqsUpTo(LineSet, MaxLines) : Len(q) >= 1 } }

NoText == [budget |-> 0, lines |-> << >>, text |-> << >>]

\* the number of lines the worker owes for the first n requests
RECURSIVE LinesOfFirst(_, _)
LinesOfFirst(tx, n) ==
    IF n = 0 THEN 0 ELSE Len(tx[n].lines) + LinesOfFirst(tx, n - 1)

Requests == 1 .. MaxRequests

\* ------------------------------------------------------------------------
\* State
\* ------------------------------------------------------------------------
VARIABLES
    isBusy,        \* NER.isBusy
    queue,         \* NER.queue: request ids waiting, oldest first
    handlers,      \* ids with a listener on finishedEmitter
    listeners,     \* 'data' listeners on childProcess.stdout, by request
    numTokens,     \* extract's remaining budget, per request
    result,        \* extract's result array, per request
    resolveCalls,  \* how often each request's resolve was invoked
    resolvedWith,  \* what result held when resolve was first invoked with it
    origin,        \* for each entry of result, the worker line it came from
    texts,         \* the text of each submitted request: its text field is the
                   \* argument while the request waits, and what was written after
    nreq,          \* number of getEntities calls so far
    written,       \* requests whose text was written to stdin, in order
    stdin,         \* the bytes passed to childProcess.stdin.write so far
    consumed,      \* how many written texts the worker has answered
    pipe,          \* lines emitted by the worker and not yet delivered
    alive,         \* the worker subprocess is running
    killed,        \* childProcess.kill() has sent its signal
    error,         \* an exception no handler of NER takes, and what came of it
    exited,        \* exit() has been called
    abandoned,     \* the requests that were unresolved when exit() was called
    rejected,      \* the requests whose promise was rejected
    single,        \* a second run of the same submissions, one line per chunk
    pline,         \* parser specification: the input line
    pout,          \* parser specification: the EntityMap returned
    pdone,         \* parser specification: parse has run
    pcnt,          \* parser specification: what getTokenCount returned
    pcounted       \* parser specification: getTokenCount has run

seqVars == << isBusy, queue, handlers, listeners, numTokens, result,
              resolveCalls, resolvedWith, origin, texts, nreq, written, stdin,
              consumed, pipe, alive, killed, error, exited, abandoned, rejected >>

pairVars == << single >>

parseVars == << pline, pout, pdone, pcnt, pcounted >>

vars == << isBusy, queue, handlers, listeners, numTokens, result,
           resolveCalls, resolvedWith, origin, texts, nreq, written, stdin,
           consumed, pipe, alive, killed, error, exited, abandoned, rejected, single, pline, pout, pdone, pcnt, pcounted >>

\* the part of the state the handlers of the sequencer change
Here ==
    [isBusy |-> isBusy, queue |-> queue, listeners |-> listeners,
     numTokens |-> numTokens, result |-> result,
     resolveCalls |-> resolveCalls, resolvedWith |-> resolvedWith,
     origin |-> origin, written |-> written,
     stdin |-> stdin, rejected |-> rejected,
     fail |-> << >>, thrown |-> FALSE, raised |-> FALSE]

Install(S) ==
    /\ isBusy' = S.isBusy
    /\ queue' = S.queue
    /\ listeners' = S.listeners
    /\ numTokens' = S.numTokens
    /\ result' = S.result
    /\ resolveCalls' = S.resolveCalls
    /\ resolvedWith' = S.resolvedWith
    /\ origin' = S.origin
    /\ written' = S.written
    /\ stdin' = S.stdin
    /\ rejected' = S.rejected

\* ------------------------------------------------------------------------
\* NER.extract and its stdout listener
\* ------------------------------------------------------------------------
\* S.fail lists what the calls of stdin.write still to come in this handler
\* do, one entry for each call: "none" while the worker lives; once it has
\* died the write is dropped ("silent"), or the stream emits 'error' later
\* ("event"), or the call throws ("throw")
WriteOutcome(S) == IF Len(S.fail) = 0 THEN "none" ELSE Head(S.fail)

\* an extract that writes the text as it was passed in
extractNoTrim(S, r, tx) ==
    [S EXCEPT !.numTokens[r] = tx[r].budget,
              !.result[r] = << >>,
              !.origin[r] = << >>,
              !.listeners = Append(@, r),
              !.written = Append(@, r),
              !.stdin = @ \o tx[r].text \o << "\n" >>,
              !.thrown = (WriteOutcome(S) = "throw"),
              !.raised = (@ \/ WriteOutcome(S) = "event"),
              !.fail = IF Len(@) = 0 THEN @ ELSE Tail(@)]

\* extract(text, resolve): budget, fresh result, listener, write to stdin
extract(S, r, tx) ==
    [S EXCEPT !.numTokens[r] = tx[r].budget,
              !.result[r] = << >>,
              !.origin[r] = << >>,
              !.listeners = Append(@, r),
              !.written = Append(@, r),
              !.stdin = @ \o Trim(tx[r].text) \o << "\n" >>,
              !.thrown = (WriteOutcome(S) = "throw"),
              !.raised = (@ \/ WriteOutcome(S) = "event"),
              !.fail = IF Len(@) = 0 THEN @ ELSE Tail(@)]

\* finishedEmitter.emit(id): the handler getEntities registered for id
EmitFinished(S, id, tx, hs) ==
    IF id \in hs THEN extract([S EXCEPT !.isBusy = TRUE], id, tx) ELSE S

\* a completion that leaves the wait queue alone
CompleteNoEmit(S, r, tx, hs) ==
    [S EXCEPT !.listeners = << >>,
              !.isBusy = FALSE,
              !.resolvedWith[r] = IF S.resolveCalls[r] = 0 /\ r \notin S.rejected
                                  THEN S.result[r] ELSE @,
              !.resolveCalls[r] = @ + 1]

\* the block under if(numTokens <= 0)
Complete(S, r, tx, hs) ==
    LET S1 == [S EXCEPT !.listeners = << >>,
                        !.isBusy = FALSE,
                        !.resolvedWith[r] =
                            IF S.resolveCalls[r] = 0 /\ r \notin S.rejected
                            THEN S.result[r] ELSE @,
                        !.resolveCalls[r] = @ + 1]
    IN  IF Len(S1.queue) > 0
        THEN EmitFinished([S1 EXCEPT !.queue = Tail(@)], Head(S1.queue), tx, hs)
        ELSE S1

\* the body of sentences.forEach for one sentence; an exception thrown by
\* an earlier sentence has left the loop
OnSentence(S, r, sentence, org, tx, hs) ==
    IF S.thrown THEN S ELSE
    LET S1 == [S EXCEPT !.numTokens[r] = @ - getTokenCountTagged(sentence),
                        !.result[r] = Append(@, parse(sentence)),
                        !.origin[r] = Append(@, org)]
    IN  IF S1.numTokens[r] <= 0 THEN Complete(S1, r, tx, hs) ELSE S1

RECURSIVE ForEachSentence(_, _, _, _, _, _, _)
ForEachSentence(S, r, sentences, orgs, i, tx, hs) ==
    IF i > Len(sentences) THEN S
    ELSE ForEachSentence(
            OnSentence(S, r, sentences[i],
                       IF i <= Len(orgs) THEN orgs[i] ELSE << 0, 0 >>, tx, hs),
            r, sentences, orgs, i + 1, tx, hs)

\* the listener of request r on one chunk of data
OnData(S, r, data, orgs, tx, hs) ==
    ForEachSentence(S, r, Split(Trim(data), {"\n"}), orgs, 1, tx, hs)

\* stdout.emit('data', data): every listener that was attached when the
\* chunk arrived runs, in the order of registration, until one throws
RECURSIVE EmitData(_, _, _, _, _, _, _)
EmitData(S, ls, i, data, orgs, tx, hs) ==
    IF i > Len(ls) \/ S.thrown THEN S
    ELSE EmitData(OnData(S, ls[i], data, orgs, tx, hs), ls, i + 1, data, orgs, tx, hs)

\* the text of the worker line that a pipe entry stands for
LineOf(e, tx) == tx[e.req].lines[e.idx]

\* the bytes of a chunk: each line followed by a newline
RECURSIVE ChunkData(_, _)
ChunkData(es, tx) ==
    IF Len(es) = 0 THEN << >>
    ELSE LineOf(es[1], tx) \o << "\n" >> \o ChunkData(Tail(es), tx)

ChunkOrigins(es) == [i \in 1 .. Len(es) |-> << es[i].req, es[i].idx >>]

\* ------------------------------------------------------------------------
\* Initial state: a fresh NER object with its worker spawned
\* ------------------------------------------------------------------------
\* the fields of a new NER object
Fresh ==
    [isBusy |-> FALSE, queue |-> << >>, listeners |-> << >>,
     numTokens |-> [r \in Requests |-> 0],
     result |-> [r \in Requests |-> << >>],
     resolveCalls |-> [r \in Requests |-> 0],
     resolvedWith |-> [r \in Requests |-> << >>],
     origin |-> [r \in Requests |-> << >>],
     written |-> << >>, stdin |-> << >>, rejected |-> {},
     fail |-> << >>, thrown |-> FALSE, raised |-> FALSE]

SeqInit ==
    /\ isBusy = FALSE
    /\ queue = << >>
    /\ handlers = {}
    /\ listeners = << >>
    /\ numTokens = [r \in Requests |-> 0]
    /\ result = [r \in Requests |-> << >>]
    /\ resolveCalls = [r \in Requests |-> 0]
    /\ resolvedWith = [r \in Requests |-> << >>]
    /\ origin = [r \in Requests |-> << >>]
    /\ texts = [r \in Requests |-> NoText]
    /\ nreq = 0
    /\ written = << >>
    /\ stdin = << >>
    /\ consumed = 0
    /\ pipe = << >>
    /\ alive = TRUE
    /\ killed = FALSE
    /\ error = "none"
    /\ exited = FALSE
    /\ abandoned = {}
    /\ rejected = {}
    /\ single = [S |-> Fresh, pipe |-> << >>, consumed |-> 0]

ParseIdle ==
    /\ pline = << >>
    /\ pout = << >>
    /\ pdone = FALSE
    /\ pcnt = 0
    /\ pcounted = FALSE

Init == SeqInit /\ ParseIdle

\* ------------------------------------------------------------------------
\* Operations of the sequencer
\* ------------------------------------------------------------------------
\* the two branches of getEntities for the request r; an exception thrown
\* by extract inside the promise executor rejects the promise
getEntities(S, r, tx) ==
    IF S.isBusy
    THEN [S EXCEPT !.queue = Append(@, r)]
    ELSE LET S1 == extract([S EXCEPT !.isBusy = TRUE], r, tx)
         IN  IF S1.thrown
             THEN [S1 EXCEPT !.thrown = FALSE, !.rejected = @ \cup {r}]
             ELSE S1

\* the texts after a handler that left the state S: the argument of a
\* request is held by its closure until extract has written it
Spent(tx, S) ==
    [r \in Requests |->
        IF \E i \in 1 .. Len(S.written) : S.written[i] = r
        THEN [tx[r] EXCEPT !.text = Trim(@)]
        ELSE tx[r]]

\* the host process runs: no uncaught exception has ended it
Running == error # "fatal"

\* what childProcess.stdin.write can do once the worker has died: the write
\* is dropped without an error (the stream is already destroyed), the stream
\* emits 'error' (EPIPE) afterwards, or the call throws
DeadWrite == {"silent", "event", "throw"}

\* what a call of stdin.write can do in a handler that starts now; a handler
\* writes once for each request it takes off the queue, and every call has
\* an outcome of its own
WriteOutcomes == IF alive THEN {"none"} ELSE DeadWrite

\* the exception that leaves a handler in the state S uncaught: the 'error'
\* event finds no listener on childProcess.stdin, and an exception thrown
\* inside an event listener has no handler above it
AfterHandler(S) ==
    IF S.raised \/ S.thrown THEN "raised" ELSE error

\* NER.getEntities(text): the call up to the return of the promise
GetEntities(t) ==
    /\ Running
    /\ nreq < MaxRequests
    /\ LinesOfFirst(texts, nreq) + Len(t.lines) <= MaxLines
    /\ LET r == nreq + 1
           tx == [texts EXCEPT ![r] = t]
       IN  \E o \in IF isBusy THEN {"none"} ELSE WriteOutcomes :
           LET S1 == getEntities([Here EXCEPT !.fail = << o >>], r, tx)
           IN  /\ nreq' = r
               /\ texts' = Spent(tx, S1)
               /\ Install(S1)
               /\ error' = AfterHandler(S1)
               /\ handlers' = IF isBusy THEN handlers \cup {r} ELSE handlers
    /\ UNCHANGED << consumed, pipe, alive, killed, exited, abandoned >>
    /\ UNCHANGED pairVars
    /\ UNCHANGED parseVars

\* the worker reads the next text from its stdin and emits its lines
WorkerRespond ==
    /\ Running
    /\ alive
    /\ consumed < Len(written)
    /\ LET r == written[consumed + 1]
       IN  pipe' = pipe \o [i \in 1 .. Len(texts[r].lines) |-> [req |-> r, idx |-> i]]
    /\ consumed' = consumed + 1
    /\ UNCHANGED << isBusy, queue, handlers, listeners, numTokens, result,
                    resolveCalls, resolvedWith, origin, texts, nreq, written, stdin, alive, killed,
                    error, exited, abandoned, rejected >>
    /\ UNCHANGED pairVars
    /\ UNCHANGED parseVars

\* how many times the handlers of a chunk of k lines can call stdin.write:
\* once for each queued request, and at most once for each sentence that
\* each listener sees
MaxWrites(k) ==
    IF Len(queue) < k * Len(listeners) THEN Len(queue) ELSE k * Len(listeners)

\* a 'data' event on stdout carrying the next k lines, with a listener
Deliver(k) ==
    /\ Running
    /\ k >= 1
    /\ k <= Len(pipe)
    /\ Len(listeners) > 0
    /\ \E os \in [1 .. MaxWrites(k) -> WriteOutcomes] :
       LET es == SubSeq(pipe, 1, k)
           S1 == EmitData([Here EXCEPT !.fail = os], listeners, 1,
                          ChunkData(es, texts), ChunkOrigins(es), texts, handlers)
       IN  /\ Install(S1)
           /\ error' = AfterHandler(S1)
           /\ texts' = Spent(texts, S1)
    /\ pipe' = SubSeq(pipe, k + 1, Len(pipe))
    /\ UNCHANGED << handlers, nreq, consumed, alive, killed, exited,
                    abandoned >>
    /\ UNCHANGED pairVars
    /\ UNCHANGED parseVars

\* a 'data' event while no listener is attached: the chunk is lost
DeliverUnheard(k) ==
    /\ Running
    /\ k >= 1
    /\ k <= Len(pipe)
    /\ Len(listeners) = 0
    /\ pipe' = SubSeq(pipe, k + 1, Len(pipe))
    /\ UNCHANGED << isBusy, queue, handlers, listeners, numTokens, result,
                    resolveCalls, resolvedWith, origin, texts, nreq, written, stdin, consumed,
                    alive, killed, error, exited, abandoned, rejected >>
    /\ UNCHANGED pairVars
    /\ UNCHANGED parseVars

\* NER.exit(): childProcess.kill() sends the signal and returns
Exit ==
    /\ Running
    /\ ~exited
    /\ exited' = TRUE
    /\ killed' = TRUE
    /\ abandoned' = { r \in 1 .. nreq : resolveCalls[r] = 0 }
    /\ UNCHANGED << isBusy, queue, handlers, listeners, numTokens, result,
                    resolveCalls, resolvedWith, origin, texts, nreq, written,
                    stdin, consumed, pipe, alive, error, rejected >>
    /\ UNCHANGED pairVars
    /\ UNCHANGED parseVars

\* the handlers spawnProcess installs for SIGINT and SIGTERM
Signal ==
    /\ Running
    /\ ~killed
    /\ killed' = TRUE
    /\ UNCHANGED << isBusy, queue, handlers, listeners, numTokens, result,
                    resolveCalls, resolvedWith, origin, texts, nreq, written,
                    stdin, consumed, pipe, alive, error, exited, abandoned, rejected >>
    /\ UNCHANGED pairVars
    /\ UNCHANGED parseVars

\* the worker dies of the signal, some time after kill() has returned
WorkerDies ==
    /\ Running
    /\ killed
    /\ alive
    /\ alive' = FALSE
    /\ UNCHANGED << isBusy, queue, handlers, listeners, numTokens, result,
                    resolveCalls, resolvedWith, origin, texts, nreq, written,
                    stdin, consumed, pipe, killed, error, exited, abandoned, rejected >>
    /\ UNCHANGED pairVars
    /\ UNCHANGED parseVars

\* the 'error' event finds no listener on childProcess.stdin and becomes an
\* uncaught exception, which ends the host process
UncaughtEndsProcess ==
    /\ error = "raised"
    /\ error' = "fatal"
    /\ UNCHANGED << isBusy, queue, handlers, listeners, numTokens, result,
                    resolveCalls, resolvedWith, origin, texts, nreq, written,
                    stdin, consumed, pipe, alive, killed, exited, abandoned, rejected >>
    /\ UNCHANGED pairVars
    /\ UNCHANGED parseVars

\* the uncaught exception is taken by a handler of the application
UncaughtHandled ==
    /\ error = "raised"
    /\ error' = "none"
    /\ UNCHANGED << isBusy, queue, handlers, listeners, numTokens, result,
                    resolveCalls, resolvedWith, origin, texts, nreq, written,
                    stdin, consumed, pipe, alive, killed, exited, abandoned, rejected >>
    /\ UNCHANGED pairVars
    /\ UNCHANGED parseVars

MaxChunk == MaxLines

Next ==
    \/ \E t \in Texts : GetEntities(t)
    \/ WorkerRespond
    \/ \E k \in 1 .. MaxChunk : Deliver(k)
    \/ \E k \in 1 .. MaxChunk : DeliverUnheard(k)
    \/ Exit
    \/ Signal
    \/ WorkerDies
    \/ UncaughtEndsProcess
    \/ UncaughtHandled

Spec == Init /\ [][Next]_vars

\* ------------------------------------------------------------------------
\* Two runs of the same submissions: in the second every line of the
\* worker's output is a chunk of its own
\* ------------------------------------------------------------------------
\* getEntities(text) in both runs, before the worker has answered anything
SubmitBoth(t) ==
    /\ nreq < MaxRequests
    /\ LinesOfFirst(texts, nreq) + Len(t.lines) <= MaxLines
    /\ consumed = 0
    /\ single.consumed = 0
    /\ LET r == nreq + 1
           tx == [texts EXCEPT ![r] = t]
           S1 == getEntities(Here, r, tx)
       IN  /\ nreq' = r
           /\ texts' = Spent(tx, S1)
           /\ Install(S1)
           /\ single' = [single EXCEPT !.S = getEntities(@, r, tx)]
           /\ handlers' = IF isBusy THEN handlers \cup {r} ELSE handlers
    /\ UNCHANGED << consumed, pipe, alive, killed, error, exited, abandoned >>
    /\ UNCHANGED parseVars

\* the worker of the second run answers the next text written to it
RespondSingle ==
    /\ single.consumed < Len(single.S.written)
    /\ LET r == single.S.written[single.consumed + 1]
       IN  single' = [single EXCEPT
                         !.pipe = @ \o [i \in 1 .. Len(texts[r].lines) |->
                                           [req |-> r, idx |-> i]],
                         !.consumed = @ + 1]
    /\ UNCHANGED seqVars
    /\ UNCHANGED parseVars

\* a 'data' event of the second run: the next line alone
DeliverSingle ==
    /\ Len(single.pipe) >= 1
    /\ Len(single.S.listeners) > 0
    /\ LET es == SubSeq(single.pipe, 1, 1)
       IN  single' = [single EXCEPT
                         !.S = EmitData(@, single.S.listeners, 1,
                                        ChunkData(es, texts), ChunkOrigins(es),
                                        texts, handlers),
                         !.pipe = Tail(@)]
    /\ UNCHANGED seqVars
    /\ UNCHANGED parseVars

\* the second run has come to rest: all texts answered, and the output
\* delivered or without a listener
SingleAtRest ==
    /\ single.consumed = Len(single.S.written)
    /\ single.pipe = << >> \/ Len(single.S.listeners) = 0

\* the first run, started once the second is at rest
ChunkRespond == nreq >= 1 /\ SingleAtRest /\ WorkerRespond

ChunkDeliver(k) == SingleAtRest /\ Deliver(k)

ChunkNext ==
    \/ \E t \in Texts : SubmitBoth(t)
    \/ RespondSingle
    \/ DeliverSingle
    \/ ChunkRespond
    \/ \E k \in 1 .. MaxChunk : ChunkDeliver(k)

ChunkSpec == Init /\ [][ChunkNext]_vars

\* ------------------------------------------------------------------------
\* The parser on its own: a line is drawn, then parse is applied to it
\* ------------------------------------------------------------------------
PERSON == << "P","E","R","S","O","N" >>

LOCATION == << "L","O","C","A","T","I","O","N" >>

ORGANIZATION == << "O","R","G","A","N","I","Z","A","T","I","O","N" >>

Token(surface, tag) == surface \o << "/" >> \o tag

TokBarack == Token(<< "B","a","r","a","c","k" >>, PERSON)

TokObama == Token(<< "O","b","a","m","a" >>, PERSON)

TokVisited == Token(<< "v","i","s","i","t","e","d" >>, OTag)

TokParis == Token(<< "P","a","r","i","s" >>, LOCATION)

TokSpain == Token(<< "S","p","a","i","n" >>, LOCATION)

TokDot == Token(<< "." >>, OTag)

TokLRB == Token(<< "-","L","R","B","-" >>, OTag)

TokUntagged == << "e","h" >>

\* a tag in lower case, and a tag without a surface before the slash
TokLowerTag == << "e","h","/","o" >>

TokNoSurface == << "/","O" >>

\* a surface of one letter with a form feed after it
TokFormFeed == Token(<< "a", "\f" >>, PERSON)

TokenSet == { TokBarack, TokObama, TokVisited, TokParis, TokDot, TokLRB,
              TokUntagged, TokLowerTag, TokNoSurface, TokFormFeed, << >> }

LineBarackParis == Join(<< TokBarack, TokObama, TokVisited, TokParis >>, << " " >>)

LineNewYorkFed ==
    Join(<< Token(<< "N","e","w" >>, ORGANIZATION),
            Token(<< "Y","o","r","k" >>, ORGANIZATION),
            Token(<< "F","e","d" >>, ORGANIZATION) >>, << " " >>)

LineSpain == Join(<< TokSpain, TokDot >>, << " " >>)

\* the eight escapes of quotes and brackets, each tagged O
LineEscapes ==
    Join(<< Token(<< Backquote, Backquote >>, OTag),
            Token(<< "'", "'" >>, OTag),
            Token(<< "-","L","R","B","-" >>, OTag),
            Token(<< "-","R","R","B","-" >>, OTag),
            Token(<< "-","L","S","B","-" >>, OTag),
            Token(<< "-","R","S","B","-" >>, OTag),
            Token(<< "-","L","C","B","-" >>, OTag),
            Token(<< "-","R","C","B","-" >>, OTag) >>, << " " >>)

\* two tokens with a form feed between them, and a token with a no-break
\* space inside its surface
LineFormFeed == Join(<< TokBarack, TokParis >>, << "\f" >>)

LineNoBreak ==
    Join(<< TokVisited,
            Token(<< "N","e","w", NoBreakSpace, "Y","o","r","k" >>, LOCATION),
            TokDot >>, << " " >>)

ParseInputs ==
    { Join(toks, << " " >>) : toks \in SeqsUpTo(TokenSet, MaxTokens) }
        \cup { LineBarackParis, LineNewYorkFed, LineSpain, LineEscapes,
               LineFormFeed, LineNoBreak }

ParseInit ==
    /\ SeqInit
    /\ pline \in ParseInputs
    /\ pout = << >>
    /\ pdone = FALSE
    /\ pcnt = 0
    /\ pcounted = FALSE

\* this.parse(sentence)
DoParse ==
    /\ ~pdone
    /\ pout' = parse(pline)
    /\ pdone' = TRUE
    /\ UNCHANGED << pline, pcnt, pcounted >>
    /\ UNCHANGED seqVars
    /\ UNCHANGED pairVars

\* this.getTokenCount(sentence, true)
DoCount ==
    /\ ~pcounted
    /\ pcnt' = getTokenCountTagged(pline)
    /\ pcounted' = TRUE
    /\ UNCHANGED << pline, pout, pdone >>
    /\ UNCHANGED seqVars
    /\ UNCHANGED pairVars

ParseNext == DoParse \/ DoCount

ParseSpec == ParseInit /\ [][ParseNext]_vars

\* ------------------------------------------------------------------------
\* What the parser is specified to return, stated on well-formed lines
\* ------------------------------------------------------------------------
\* surface/TAG: a surface without slash, one slash, upper-case letters
WellFormedToken(tok) ==
    \E j \in 2 .. Len(tok) - 1 :
        /\ tok[j] = "/"
        /\ \A i \in 1 .. j - 1 : tok[i] # "/" /\ tok[i] \notin Whitespace
        /\ \A i \in j + 1 .. Len(tok) : tok[i] \in Upper

WellFormedLine(line) ==
    LET toks == Split(line, {" "})
    IN  \A i \in 1 .. Len(toks) : WellFormedToken(toks[i])

SlashOf(tok) == CHOOSE j \in 1 .. Len(tok) : tok[j] = "/"

SurfaceOf(tok) == SubSeq(tok, 1, SlashOf(tok) - 1)

TagOf(tok) == SubSeq(tok, SlashOf(tok) + 1, Len(tok))

\* token i opens a mention: it is not O and the token before has another tag
OpensMention(toks, i) ==
    /\ TagOf(toks[i]) # OTag
    /\ i = 1 \/ TagOf(toks[i - 1]) # TagOf(toks[i])

\* the last token of the maximal run of one tag that starts at i
RunEnd(toks, i) ==
    SetMax({ j \in i .. Len(toks) : \A n \in i .. j : TagOf(toks[n]) = TagOf(toks[i]) })

MentionAt(toks, i) ==
    Join([n \in 1 .. RunEnd(toks, i) - i + 1 |-> SurfaceOf(toks[i + n - 1])], << " " >>)

RECURSIVE MentionsFrom(_, _, _)
MentionsFrom(toks, i, m) ==
    IF i > Len(toks) THEN m
    ELSE MentionsFrom(toks, i + 1,
            IF OpensMention(toks, i)
            THEN MapPush(m, TagOf(toks[i]), MentionAt(toks, i))
            ELSE m)

\* categories in order of first appearance, each with its mentions in order
MentionMap(line) == MentionsFrom(Split(line, {" "}), 1, << >>)

\* two or more tokens, all with the same tag, which is not O
OneRunLine(line) ==
    LET toks == Split(line, {" "})
    IN  /\ WellFormedLine(line)
        /\ Len(toks) >= 2
        /\ TagOf(toks[1]) # OTag
        /\ \A i \in 1 .. Len(toks) : TagOf(toks[i]) = TagOf(toks[1])

\* C9: for every line of well-formed surface/TAG tokens, parse returns the
\* EntityMap of the maximal same-tag runs: each category, in order of first
\* appearance, with its mentions left to right, surfaces joined by spaces.
C9_ParseReturnsMentions ==
    (pdone /\ WellFormedLine(pline)) => pout = MentionMap(pline)

\* C10: a line that is one run of two or more tokens with the same non-O
\* tag parses to exactly one mention under that tag, the surfaces joined by
\* single spaces.
C10_TrailingRunIsOneMention ==
    (pdone /\ OneRunLine(pline)) =>
        LET toks == Split(pline, {" "})
        IN  pout = << [k |-> TagOf(toks[1]),
                       v |-> << Join([i \in 1 .. Len(toks) |-> SurfaceOf(toks[i])],
                                     << " " >>) >>] >>

\* the line ends in a token whose tag is not O: a span is open at its end
EndsInSpan(line) ==
    LET toks == Split(line, {" "})
    IN  /\ WellFormedLine(line)
        /\ TagOf(toks[Len(toks)]) # OTag

\* C15: the final flush of a span still open at the end of the line appends
\* to the list its category already has: the mentions of that category
\* found earlier in the line are still there, in order, before the last.
C15_FinalFlushKeepsEarlierMentions ==
    (pdone /\ EndsInSpan(pline)) =>
        LET toks == Split(pline, {" "})
            tag == TagOf(toks[Len(toks)])
            ref == MapGet(MentionMap(pline), tag)
        IN  /\ MapHas(pout, tag)
            /\ Len(MapGet(pout, tag)) >= Len(ref)
            /\ \A i \in 1 .. Len(ref) - 1 : MapGet(pout, tag)[i] = ref[i]

\* the token pattern finds a match: some slash with a character before it
\* and an upper-case letter right after it
Matches(tok) ==
    \E j \in 2 .. Len(tok) - 1 : tok[j] = "/" /\ tok[j + 1] \in Upper

\* the line without its tokens that the pattern does not match
Cleaned(line) == Join(SelectSeq(Split(line, Whitespace), Matches), << " " >>)

\* C16: parse returns an EntityMap for every line; tokens that do not match
\* the surface/TAG pattern are skipped, so the EntityMap of a line is that
\* of the line with those tokens removed, and a line without any matching
\* token gives the empty EntityMap.
C16_MalformedTokensSkipped ==
    pdone =>
        /\ pout = parse(Cleaned(pline))
        /\ Cleaned(pline) = << >> => pout = << >>

\* a line with a token that does not match between two that do
C16_Witness ==
    /\ pdone
    /\ pline = Join(<< TokBarack, TokLowerTag, TokParis >>, << " " >>)
    /\ pout = << [k |-> PERSON, v |-> << << "B","a","r","a","c","k" >> >>],
                 [k |-> LOCATION, v |-> << << "P","a","r","i","s" >> >>] >>

\* ------------------------------------------------------------------------
\* Properties of the sequencer
\* ------------------------------------------------------------------------
Wrote(r) == \E i \in 1 .. Len(written) : written[i] = r

Resolved(r) == resolveCalls[r] >= 1

\* in flight: text written to the worker's stdin, promise not yet resolved
InFlight(r) == Wrote(r) /\ ~Resolved(r)

\* C1: at most one request is in flight at any time, where a request is in
\* flight from the write of its text to stdin until its promise is resolved.
C1_AtMostOneInFlight ==
    Cardinality({ r \in Requests : InFlight(r) }) <= 1

\* C2: every worker line that is appended to a result is appended to the
\* result of the request whose text it answers, and to no second result.
C2_LinesAttributedToOwnRequest ==
    /\ \A r \in Requests : \A i \in 1 .. Len(origin[r]) : origin[r][i][1] = r
    /\ \A r1, r2 \in Requests : \A i \in 1 .. Len(origin[r1]) :
           \A j \in 1 .. Len(origin[r2]) :
               (origin[r1][i] = origin[r2][j]) => (r1 = r2 /\ i = j)

\* C3: requests are resolved in the order of their getEntities calls: a
\* later request is never resolved while an earlier one is unresolved.
C3_ResolvedInSubmissionOrder ==
    \A a, b \in 1 .. nreq : (a < b /\ Resolved(b)) => Resolved(a)

\* C4: the text of a request that had to queue is written to the worker
\* only after its predecessor's listener is detached and its promise
\* resolved: never while the request submitted before it is unresolved.
C4_QueuedWrittenAfterPredecessor ==
    \A b \in handlers :
        Wrote(b) => (Resolved(b - 1) /\ \A i \in 1 .. Len(listeners) : listeners[i] # b - 1)

\* the worker has answered every text written to it, and its output is
\* all delivered or finds no listener: nothing more happens without a new
\* getEntities call
Quiescent ==
    /\ alive
    /\ consumed = Len(written)
    /\ pipe = << >> \/ Len(listeners) = 0

\* C5: every submitted request is eventually dispatched and resolved, given
\* that the worker emits for each text lines whose tagged counts reach the
\* budget: once the worker has answered everything and its output is
\* delivered or unheard, no submitted request is left queued or unresolved.
C5_EverySubmittedRequestResolves ==
    (Quiescent /\ \A r \in 1 .. nreq : TaggedSum(texts[r].lines) >= texts[r].budget)
        => \A r \in 1 .. nreq : Wrote(r) /\ Resolved(r)

\* C6: the resolve function of a request is invoked exactly once over the
\* request's lifetime, whatever the grouping of lines into chunks: never
\* a second time.
C6_ResolveInvokedOnce ==
    \A r \in Requests : resolveCalls[r] <= 1

\* C7: the resolved result of a request has one EntityMap per line the
\* worker emits for the request's text, in the order of emission.
C7_OneEntryPerWorkerLine ==
    \A r \in Requests :
        Resolved(r) =>
            /\ Len(result[r]) = Len(texts[r].lines)
            /\ result[r] = [i \in 1 .. Len(texts[r].lines) |-> parse(texts[r].lines[i])]

\* C8: after exit() no request that was in flight or queued at
\* that moment is ever resolved, and no queued text is written afterwards.
C8_AbandonedNeverResolved ==
    [][\A r \in abandoned :
          /\ resolveCalls'[r] = resolveCalls[r]
          /\ Wrote(r)' => Wrote(r)]_vars

\* ------------------------------------------------------------------------
\* What the tagged token count is specified to be
\* ------------------------------------------------------------------------
\* the one-character forms of the escaped quotes and brackets
EscapeTable ==
    { << << Backquote, Backquote >>, << "'" >> >>,
      << << "'", "'" >>, << "'" >> >>,
      << << "-","L","R","B","-" >>, << "(" >> >>,
      << << "-","R","R","B","-" >>, << ")" >> >>,
      << << "-","L","S","B","-" >>, << "[" >> >>,
      << << "-","R","S","B","-" >>, << "]" >> >>,
      << << "-","L","C","B","-" >>, << "{" >> >>,
      << << "-","R","C","B","-" >>, << "}" >> >> }

\* the text of a token before its first slash (all of it without slash)
BeforeSlash(tok) ==
    IF \E j \in 1 .. Len(tok) : tok[j] = "/"
    THEN SubSeq(tok, 1, (CHOOSE j \in 1 .. Len(tok) :
                            tok[j] = "/" /\ \A i \in 1 .. j - 1 : tok[i] # "/") - 1)
    ELSE tok

PlainSurface(tok) ==
    IF \E e \in EscapeTable : e[1] = BeforeSlash(tok)
    THEN (CHOOSE e \in EscapeTable : e[1] = BeforeSlash(tok))[2]
    ELSE BeforeSlash(tok)

MeaningfulTokens(line) ==
    LET toks == Split(line, {" "})
    IN  Cardinality({ i \in 1 .. Len(toks) : Len(PlainSurface(toks[i])) > 1 })

\* C11 as stated: in tagged mode getTokenCount of a line is the number of
\* its space-separated tokens whose surface, with the escapes of quotes and
\* brackets replaced by one character, is longer than one character; it is
\* 1 for "Spain/LOCATION ./O" and 0 for a line of escapes.
C11_TaggedCountIsMeaningfulTokens ==
    pcounted =>
        /\ pcnt = MeaningfulTokens(pline)
        /\ pline = LineSpain => pcnt = 1
        /\ pline = LineEscapes => pcnt = 0

\* ------------------------------------------------------------------------
\* Properties of completion, dispatch and the busy flag
\* ------------------------------------------------------------------------
\* C12: the completion of one request dispatches at most one queued
\* request: the handling of one chunk, in which one request completes,
\* removes at most the head of the wait queue and writes at most one text,
\* even when the chunk holds further lines after the completing one.
C12_CompletionDispatchesAtMostOne ==
    [][/\ Len(queue) - Len(queue') <= 1
       /\ Len(written') - Len(written) <= 1]_vars

\* in flight with the lines received so far counting less than the budget
UnderBudget(r) == InFlight(r) /\ numTokens[r] > 0

\* C13: while the tagged counts of the lines received for the in-flight
\* request sum to less than its budget, its promise stays unresolved, the
\* busy flag stays set and no queued request is dequeued or dispatched;
\* without further output of the worker this lasts forever.
C13_UnderBudgetSuspends ==
    [][\A r \in Requests :
          UnderBudget(r)' =>
              /\ resolveCalls'[r] = 0
              /\ isBusy'
              /\ UnderBudget(r) =>
                     /\ Len(queue') >= Len(queue)
                     /\ \A i \in 1 .. Len(queue) : ~Wrote(queue[i])']_vars

\* body is text without the white space at its two ends
IsTrimOf(body, text) ==
    \E i \in 1 .. Len(text) + 1 : \E j \in 0 .. Len(text) :
        /\ body = SubSeq(text, i, j)
        /\ \A k \in 1 .. i - 1 : text[k] \in Whitespace
        /\ \A k \in j + 1 .. Len(text) : text[k] \in Whitespace
        /\ Len(body) > 0 => (body[1] \notin Whitespace /\ body[Len(body)] \notin Whitespace)

\* the text without the white space at its two ends
Core(text) ==
    CHOOSE body \in { SubSeq(text, i, j) : i \in 1 .. Len(text) + 1, j \in 0 .. Len(text) } :
        IsTrimOf(body, text)

MeaningfulTrimmed(line) ==
    LET toks == Split(line, {" "})
    IN  Cardinality({ i \in 1 .. Len(toks) : Len(Core(PlainSurface(toks[i]))) > 1 })

\* C11, amended: in tagged mode getTokenCount of a line is the number of
\* its space-separated tokens whose surface, with the escapes of quotes and
\* brackets replaced by one character and the white space at its two ends
\* then removed, is longer than one character; it is 1 for
\* "Spain/LOCATION ./O" and 0 for a line of escapes.
C11_TaggedCountTrimsSurface ==
    pcounted =>
        /\ pcnt = MeaningfulTrimmed(pline)
        /\ pline = LineSpain => pcnt = 1
        /\ pline = LineEscapes => pcnt = 0

\* the count of a line with a surface of one letter and a form feed, an
\* escaped bracket and one counted token
C11_Witness ==
    /\ pcounted
    /\ pline = Join(<< TokFormFeed, TokLRB, TokObama >>, << " " >>)
    /\ pcnt = 1

\* C14: a getEntities call made while busy writes nothing, attaches no
\* listener to the worker's output and leaves busy flag, budgets and results
\* as they are: it only appends its token to the wait queue. A call made
\* while idle sets the busy flag and writes its own text, trimmed and
\* followed by one newline, and leaves the queue as it is.
C14_GetEntitiesFrame ==
    [][nreq' = nreq + 1 =>
          IF isBusy
          THEN /\ stdin' = stdin
               /\ written' = written
               /\ listeners' = listeners
               /\ isBusy' = isBusy
               /\ numTokens' = numTokens
               /\ result' = result
               /\ resolveCalls' = resolveCalls
               /\ queue' = Append(queue, nreq')
          ELSE /\ isBusy'
               /\ queue' = queue
               /\ written' = Append(written, nreq')
               /\ Len(stdin') > Len(stdin)
               /\ SubSeq(stdin', 1, Len(stdin)) = stdin
               /\ stdin'[Len(stdin')] = "\n"
               /\ SubSeq(stdin', Len(stdin) + 1, Len(stdin') - 1)
                      = RawText(texts'[nreq'].lines)]_vars

\* a first call wrote its text, which came with a blank before it and a
\* blank and a line end after it; a second call made while the first was in
\* flight waits in the queue with its text as it was passed
C14_Witness ==
    /\ nreq = 2
    /\ written = << 1 >>
    /\ queue = << 2 >>
    /\ stdin = << "O","b","a","m","a","\n" >>
    /\ texts[2].text = << " ", ".", " ", "\r", "\n" >>

Listening(r) == \E i \in 1 .. Len(listeners) : listeners[i] = r

\* C17: between handlers the busy flag is true exactly when one request is
\* dispatched and unresolved, and that request has its listener on the
\* worker's output; the flag is never false while a dispatched request is
\* unresolved.
C17_BusyIffOneInFlight ==
    /\ isBusy <=> (/\ Cardinality({ r \in Requests : InFlight(r) }) = 1
                   /\ \A r \in Requests : InFlight(r) => Listening(r))
    /\ (\E r \in Requests : InFlight(r)) => isBusy

\* C18: between handlers a non-empty wait queue implies that the busy
\* flag is set, so that a getEntities call is never dispatched at once,
\* ahead of a request that waits in the queue.
C18_QueuedImpliesBusy ==
    [][/\ Len(queue') > 0 => isBusy'
       /\ (nreq' = nreq + 1 /\ \E i \in 1 .. Len(written') : written'[i] = nreq')
              => queue = << >>]_vars

\* the first request is resolved, the second was taken from the queue and
\* dispatched, the third waits behind it while the busy flag is set
C18_Witness ==
    /\ Resolved(1)
    /\ written = << 1, 2 >>
    /\ queue = << 3 >>
    /\ isBusy

\* C19: once a request's promise is resolved with its result sequence,
\* the sequence is never modified again: it stays what it was when resolve
\* was invoked with it, whatever lines follow in the chunk or in later ones.
C19_ResolvedResultFrozen ==
    \A r \in Requests : Resolved(r) => result[r] = resolvedWith[r]

\* the first run has come to rest
AtRest == consumed = Len(written) /\ (pipe = << >> \/ Len(listeners) = 0)

\* C20: the outcome depends on the lines the worker emits and not on their
\* grouping into chunks: when the run with arbitrary chunks and the run of
\* the same submissions with one line per chunk are both at rest, the same
\* requests are resolved, each with the same result.
C20_ChunkingDoesNotMatter ==
    (AtRest /\ SingleAtRest) =>
        \A r \in Requests :
            /\ Resolved(r) <=> single.S.resolveCalls[r] >= 1
            /\ Resolved(r) => resolvedWith[r] = single.S.resolvedWith[r]

====
